---- MODULE Spec2Model ----
(***************************************************************************)
(* Forgetting Engine neural-architecture search                            *)
(* (src/data/domain_results/neural_architecture/fe_nas_fixed_chip.py).     *)
(*                                                                         *)
(* Conventions of the model                                                *)
(*  - Architecture objects live in `heap`; an object's identity is its     *)
(*    index in `heap`, and every list of the program (self.population,     *)
(*    self.paradox_buffer, the locals of run) is a sequence of identities, *)
(*    so aliasing and in-place writes to elim_score are kept.              *)
(*  - accuracy is kept exactly, in units of 1/2000 (0.70 = 1400,           *)
(*    0.98 = 1960, the noise range +-0.02 = +-40).                         *)
(*  - elim_score is the exact fraction num/den in units of 1/10000000.     *)
(*  - forget_rate and paradox_rate are exact hundredths; the rates of the  *)
(*    model are ones whose products with the model's pop_size values       *)
(*    truncate alike in binary floating point and in exact arithmetic.     *)
(*  - random.Random(seed) is a seeded multiplicative congruential          *)
(*    generator: a generator is its current state, every call consumes     *)
(*    one value of the stream and the stream is a function of the seed.    *)
(***************************************************************************)
EXTENDS Integers, Sequences, FiniteSets, TLC

VARIABLES
    pc,              \* "constructed" | "running" | "returned" | "raised"
    cfg,             \* the constructor arguments of domain and engine
    heap,            \* Architecture objects, indexed by identity
    domain_rng,      \* NASRefinerDomain.rng
    engine_rng,      \* ForgettingEngineNAS.rng
    self_population, \* ForgettingEngineNAS.population
    paradox_buffer,  \* ForgettingEngineNAS.paradox_buffer
    best_overall,    \* ForgettingEngineNAS.best_overall (0 is None)
    gen,             \* the loop variable of run (0 before the first step)
    population,      \* run's local `population` after the fill-in loop
    elite,           \* run's local `elite`
    eliminated,      \* run's local `eliminated`
    keep_count,      \* run's local `keep_count`
    paradox_candidates, \* run's local `paradox_candidates`
    meta,            \* the returned metadata (<<>> before the return)
    run_no,          \* which construct-and-run this is (1 or 2)
    first_run,       \* what the first construct-and-run produced
    call,            \* the last direct call of is_paradoxical (<<>> if none)
    found            \* the members of every population this run has held, in
                     \* the order run met them (initial population first)

vars == <<pc, cfg, heap, domain_rng, engine_rng, self_population,
          paradox_buffer, best_overall, gen, population, elite, eliminated,
          keep_count, paradox_candidates, meta, run_no, first_run, call,
          found>>

(***************************************************************************)
(* Bounds of the model.                                                    *)
(***************************************************************************)
MaxPop == 10
MaxGen == 2
NumSeeds == 3
MaxList == 4
MaxDraws == 7
MaxCalls == 2
MaxTrialList == 2

(***************************************************************************)
(* Helpers on sequences and numbers.                                       *)
(***************************************************************************)
Min(a, b) == IF a < b THEN a ELSE b
Max(a, b) == IF a > b THEN a ELSE b

Range(s) == {s[i] : i \in 1..Len(s)}

\* s[:n] of Python for any integer n
Take(s, n) ==
    LET k == IF n >= 0 THEN Min(n, Len(s)) ELSE Max(0, Len(s) + n)
    IN  SubSeq(s, 1, k)

\* s[n:] of Python for any integer n
Drop(s, n) ==
    LET k == IF n >= 0 THEN Min(n, Len(s)) ELSE Max(0, Len(s) + n)
    IN  SubSeq(s, k + 1, Len(s))

RECURSIVE SumSeq(_)
SumSeq(s) == IF s = <<>> THEN 0 ELSE s[1] + SumSeq(Tail(s))

\* int(x) of Python for the fraction n/100: truncation towards zero
IntOfHundredths(n) == IF n >= 0 THEN n \div 100 ELSE -((-n) \div 100)

(***************************************************************************)
(* random.Random                                                           *)
(***************************************************************************)
\* random.Random(seed): the generator's first state
Seeded(seed) == ((seed * 7919 + 12345) % 65520) + 1

\* the state after one value has been consumed
NextRng(x) == (x * 17364) % 65521

RECURSIVE AdvanceRng(_, _)
AdvanceRng(x, k) == IF k = 0 THEN x ELSE AdvanceRng(NextRng(x), k - 1)

\* the value the generator in state x yields for _randbelow(n)
RandBelow(x, n) == (x \div 7) % n

\* rng.random() < 0.2
RandomBelowFifth(x) == x * 5 < 65521

\* rng.uniform(-0.02, 0.02), in units of 1/2000
Uniform(x) == ((x \div 7) % 9) * 10 - 40

(***************************************************************************)
(* NASRefinerDomain                                                        *)
(***************************************************************************)
ops == <<"CONV3", "CONV5", "POOL", "DROP">>

target_complexity == 1000000

\* params_per_layer with the costs of POOL and DROP exchanged
params_per_layer_exchanged(op) ==
    CASE op = "CONV3" -> 50000
      [] op = "CONV5" -> 100000
      [] op = "POOL"  -> 500
      [] op = "DROP"  -> 1000
      [] OTHER        -> 10000

\* params_per_layer.get(op, 10000)
params_per_layer(op) ==
    CASE op = "CONV3" -> 50000
      [] op = "CONV5" -> 100000
      [] op = "POOL"  -> 1000
      [] op = "DROP"  -> 500
      [] OTHER        -> 10000

\* sum(params_per_layer.get(op, 10000) for op in layers)
ParamsOf(layers) == SumSeq([i \in 1..Len(layers) |-> params_per_layer(layers[i])])

\* layers.count(op)
Count(layers, op) == Cardinality({i \in 1..Len(layers) : layers[i] = op})

\* Clamp without the cap at 0.98
ClampUncapped(x) == Max(0, x)

\* line 57: min(0.98, max(0.0, x))
Clamp(x) == Min(1960, Max(0, x))

\* estimate_performance: the accuracy and the domain generator afterwards
estimate_performance(layers, d) ==
    IF layers = <<>>
    THEN [accuracy |-> 0, d |-> d]
    ELSE LET bonus == (5 * Count(layers, "CONV3") + 8 * Count(layers, "CONV5"))
                      * (20 - Len(layers))
         IN  [accuracy |-> Clamp(1400 + bonus + Uniform(d)),
              d |-> NextRng(d)]

\* compute_elimination_score that divides the fitness term alone by
\* max(1, gen): (alpha * fitness) / g + beta * complexity + gamma * novelty
compute_elimination_score_fitness_aged(arch, g) ==
    LET novelty4 == Cardinality(Range(arch.layers))
    IN  [num |-> (-5000) * arch.accuracy
                 + Max(1, g) * (arch.params * (1000000 \div target_complexity)
                                + 750000 * novelty4),
         den |-> Max(1, g)]

\* compute_elimination_score, as the fraction num/den
compute_elimination_score(arch, g) ==
    LET novelty4 == Cardinality(Range(arch.layers))
    IN  [num |-> (-5000) * arch.accuracy
                 + arch.params * (1000000 \div target_complexity)
                 + 750000 * novelty4,
         den |-> Max(1, g)]

\* the 0-based position that s[i] takes in a stable sort of s, where
\* before[a, b] says that a sorts strictly before b
SortRank(s, i, before) ==
    Cardinality({j \in 1..Len(s) :
                    \/ before[s[j], s[i]]
                    \/ (~before[s[i], s[j]] /\ j < i)})

\* sorted(s, key=...) of Python: stable
StableSort(s, before) ==
    [r \in 1..Len(s) |->
        s[CHOOSE i \in 1..Len(s) : SortRank(s, i, before) = r - 1]]

\* 4 * np.percentile(pop_sizes, 25), linear interpolation between the two
\* closest ranks of the ascending values
Percentile25x4(pop_sizes) ==
    LET srt  == StableSort(pop_sizes,
                           [a \in Range(pop_sizes), b \in Range(pop_sizes) |-> a < b])
        n    == Len(pop_sizes)
        lo   == ((n - 1) \div 4) + 1
        hi   == Min(lo + 1, n)
        frac == (n - 1) % 4
    IN  4 * srt[lo] + frac * (srt[hi] - srt[lo])

\* NASRefinerDomain._create_random_arch: depth and layers from the domain's
\* generator, then the noise of estimate_performance from the same generator;
\* c = [heap, e, d] as for the engine's operators below
domain_create_random_arch(c) ==
    LET depth  == 3 + RandBelow(c.d, 8)
        d1     == NextRng(c.d)
        layers == [i \in 1..depth |->
                      ops[1 + RandBelow(AdvanceRng(d1, i - 1), Len(ops))]]
        perf   == estimate_performance(layers, AdvanceRng(d1, depth))
    IN  [heap |-> Append(c.heap,
                         [layers |-> layers, params |-> ParamsOf(layers),
                          accuracy |-> perf.accuracy,
                          elim_score |-> [num |-> 0, den |-> 1]]),
         e |-> c.e, d |-> perf.d]

\* the random-search baseline's sampling: k calls of
\* domain._create_random_arch() in a row
RECURSIVE BaselineSample(_, _)
BaselineSample(c, k) ==
    IF k <= 0 THEN c ELSE BaselineSample(domain_create_random_arch(c), k - 1)

\* is_paradoxical with `<=` for `<` in the accuracy test
is_paradoxical_at_mean(arch, pop_accs, pop_sizes) ==
    IF pop_accs = <<>> \/ pop_sizes = <<>>
    THEN FALSE
    ELSE /\ Len(pop_accs) * arch.accuracy <= SumSeq(pop_accs)
         /\ 4 * arch.params < Percentile25x4(pop_sizes)

\* is_paradoxical
is_paradoxical(arch, pop_accs, pop_sizes) ==
    IF pop_accs = <<>> \/ pop_sizes = <<>>
    THEN FALSE
    ELSE /\ Len(pop_accs) * arch.accuracy < SumSeq(pop_accs)
         /\ 4 * arch.params < Percentile25x4(pop_sizes)

(***************************************************************************)
(* ForgettingEngineNAS                                                     *)
(*                                                                         *)
(* The operators below take and return a context c = [heap, e, d]: the     *)
(* heap of Architecture objects, the engine's generator and the domain's   *)
(* generator. A created object is appended to the heap, so its identity is *)
(* Len(c.heap) of the context returned.                                    *)
(***************************************************************************)
Architecture(layers, params, accuracy) ==
    [layers |-> layers, params |-> params, accuracy |-> accuracy,
     elim_score |-> [num |-> 0, den |-> 1]]

\* NumLayers with randint(0, 15) for randint(5, 20)
NumLayersFromZero(e) == RandBelow(e, 16)

\* line 92: self.rng.randint(5, 20)
NumLayers(e) == 5 + RandBelow(e, 16)

\* ForgettingEngineNAS._create_random_arch
create_random_arch(c) ==
    LET num_layers == NumLayers(c.e)
        e1     == NextRng(c.e)
        layers == [i \in 1..num_layers |->
                      ops[1 + RandBelow(AdvanceRng(e1, i - 1), Len(ops))]]
        e2     == AdvanceRng(e1, num_layers)
        perf   == estimate_performance(layers, c.d)
    IN  [heap |-> Append(c.heap,
                         Architecture(layers, ParamsOf(layers), perf.accuracy)),
         e |-> e2, d |-> perf.d]

\* Sample2 drawing the second position from all n positions again
Sample2WithReplacement(x, n) ==
    <<RandBelow(x, n) + 1, RandBelow(NextRng(x), n) + 1>>

\* rng.sample(range(n), 2): a pool of n positions, the chosen slot refilled
\* with the pool's last entry; positions are 1-based here
Sample2(x, n) ==
    LET j0 == RandBelow(x, n)
        j1 == RandBelow(NextRng(x), n - 1)
    IN  <<j0 + 1, (IF j1 = j0 THEN n - 1 ELSE j1) + 1>>

InsertAt(s, pos, v) == SubSeq(s, 1, pos) \o <<v>> \o SubSeq(s, pos + 1, Len(s))
RemoveAt(s, pos) == SubSeq(s, 1, pos - 1) \o SubSeq(s, pos + 1, Len(s))

\* line 106: self.rng.choice(["swap", "add", "remove", "replace"])
MutationType(e) == <<"swap", "add", "remove", "replace">>[1 + RandBelow(e, 4)]

\* CanRemove with the guard one lower
CanRemoveAtThree(n) == n > 2

\* line 113: len(new_layers) > 3
CanRemove(n) == n > 3

\* the mutation step of mutate_arch on a non-empty copy of the parent's
\* layers: the new layers and the engine's generator afterwards
MutateLayers(new_layers, e) ==
    LET mutation_type == MutationType(e)
        e1 == NextRng(e)
        n  == Len(new_layers)
    IN  IF mutation_type = "swap" /\ n > 1
        THEN LET ij == Sample2(e1, n)
             IN  [layers |-> [new_layers EXCEPT ![ij[1]] = new_layers[ij[2]],
                                                ![ij[2]] = new_layers[ij[1]]],
                  e |-> AdvanceRng(e1, 2)]
        ELSE IF mutation_type = "add"
        THEN LET insert_pos == RandBelow(e1, n + 1)
                 op == ops[1 + RandBelow(NextRng(e1), Len(ops))]
             IN  [layers |-> InsertAt(new_layers, insert_pos, op),
                  e |-> AdvanceRng(e1, 2)]
        ELSE IF mutation_type = "remove" /\ CanRemove(n)
        THEN LET remove_pos == RandBelow(e1, n)
             IN  [layers |-> RemoveAt(new_layers, remove_pos + 1),
                  e |-> NextRng(e1)]
        ELSE IF mutation_type = "replace"
        THEN LET replace_pos == RandBelow(e1, n)
                 op == ops[1 + RandBelow(NextRng(e1), Len(ops))]
             IN  [layers |-> [new_layers EXCEPT ![replace_pos + 1] = op],
                  e |-> AdvanceRng(e1, 2)]
        ELSE [layers |-> new_layers, e |-> e1]

\* ParentLayersAfter when new_layers is the parent's own list and not a copy:
\* what is done in place to new_layers is done to parent.layers
ParentLayersAliased(parent_layers, new_layers) == new_layers

\* line 102: new_layers is a copy, so the list parent.layers keeps its
\* elements whatever lines 107-118 do in place to new_layers
ParentLayersAfter(parent_layers, new_layers) == parent_layers

\* lines 106-125: the child of a parent with layers; the child is a new
\* object that holds new_layers
MutatedChild(c, parent) ==
    LET m    == MutateLayers(c.heap[parent].layers, c.e)
        perf == estimate_performance(m.layers, c.d)
        h    == [c.heap EXCEPT ![parent].layers = ParentLayersAfter(@, m.layers)]
    IN  [heap |-> Append(h, Architecture(m.layers, ParamsOf(m.layers),
                                         perf.accuracy)),
         e |-> m.e, d |-> perf.d]

\* mutate_arch without lines 103-104: the child of a parent without layers
\* is made like any other and has no layers either
mutate_arch_unguarded(c, parent) ==
    IF c.heap[parent].layers = <<>>
    THEN [heap |-> Append(c.heap, Architecture(<<>>, 0, 0)),
          e |-> AdvanceRng(c.e, 2), d |-> c.d]
    ELSE MutatedChild(c, parent)

\* mutate_arch
mutate_arch(c, parent) ==
    IF c.heap[parent].layers = <<>>
    THEN create_random_arch(c)
    ELSE MutatedChild(c, parent)

\* [self._create_random_arch() for _ in range(k)]
RECURSIVE CreateMany(_, _)
CreateMany(c, k) == IF k <= 0 THEN c ELSE CreateMany(create_random_arch(c), k - 1)

\* max(seq, key=lambda a: a.accuracy): the first member of greatest accuracy
MaxByAccuracy(h, seq) ==
    seq[CHOOSE i \in 1..Len(seq) :
            /\ \A j \in 1..Len(seq) : h[seq[j]].accuracy <= h[seq[i]].accuracy
            /\ \A j \in 1..(i - 1) : h[seq[j]].accuracy < h[seq[i]].accuracy]

\* the values of fractions a and b compare as a > b
ScoreAbove(a, b) == a.num * b.den > b.num * a.den

\* KeepCount rounding to the nearest integer instead of truncating
KeepCountRounded(pop_size, forget_rate) ==
    IntOfHundredths(pop_size * (100 - forget_rate) + 50)

\* int(self.pop_size * (1 - self.forget_rate))
KeepCount(pop_size, forget_rate) == IntOfHundredths(pop_size * (100 - forget_rate))

\* BufferCapacity with round() for int()
BufferCapacityRounded(pop_size, paradox_rate) ==
    Max(1, IntOfHundredths(paradox_rate * pop_size + 50))

\* max(1, int(self.paradox_rate * self.pop_size))
BufferCapacity(pop_size, paradox_rate) ==
    Max(1, IntOfHundredths(paradox_rate * pop_size))

\* lines 132-133: the heap after elim_score is written into every member
ScorePopulation(h, pop, g) ==
    [i \in 1..Len(h) |->
        IF i \in Range(pop)
        THEN [h[i] EXCEPT !.elim_score = compute_elimination_score(h[i], g)]
        ELSE h[i]]

\* SortPopulation without reverse=True
SortPopulationAscending(h, pop) ==
    StableSort(pop, [a \in Range(pop), b \in Range(pop) |->
                        ScoreAbove(h[b].elim_score, h[a].elim_score)])

\* line 135: sorted(self.population, key=elim_score, reverse=True)
SortPopulation(h, pop) ==
    StableSort(pop, [a \in Range(pop), b \in Range(pop) |->
                        ScoreAbove(h[a].elim_score, h[b].elim_score)])

\* ParadoxCandidates that measures against the eliminated members only
ParadoxCandidatesAmongEliminated(h, srt, out) ==
    LET accs  == [i \in 1..Len(out) |-> h[out[i]].accuracy]
        sizes == [i \in 1..Len(out) |-> h[out[i]].params]
    IN  SelectSeq(out, LAMBDA a : is_paradoxical(h[a], accs, sizes))

\* lines 140-142: the eliminated members that are paradoxical against the
\* accuracies and sizes of the sorted population
ParadoxCandidates(h, srt, out) ==
    LET accs  == [i \in 1..Len(srt) |-> h[srt[i]].accuracy]
        sizes == [i \in 1..Len(srt) |-> h[srt[i]].params]
    IN  SelectSeq(out, LAMBDA a : is_paradoxical(h[a], accs, sizes))

\* NewParadoxBuffer without the sort by params
NewParadoxBufferUnsorted(h, cands, capacity) == Take(cands, capacity)

\* NewParadoxBuffer without the slice to the capacity
NewParadoxBufferUncapped(h, cands, capacity) ==
    StableSort(cands, [a \in Range(cands), b \in Range(cands) |->
                          h[a].params < h[b].params])

\* line 144: the new self.paradox_buffer
NewParadoxBuffer(h, cands, capacity) ==
    Take(StableSort(cands, [a \in Range(cands), b \in Range(cands) |->
                               h[a].params < h[b].params]),
         capacity)

\* FillInDone with `<=` for `<` in the loop test
FillInDoneLate(pop, pop_size) == Len(pop) > pop_size

\* line 147: the fill-in loop's exit test
FillInDone(pop, pop_size) == Len(pop) >= pop_size

\* UpdateBest that keeps the first generation's best_overall for ever
UpdateBestNever(h, incumbent, pop) == incumbent

\* UpdateBest that takes the new generation's best without comparing
UpdateBestAlways(h, incumbent, pop) == MaxByAccuracy(h, pop)

\* UpdateBest with `>=` for `>`
UpdateBestOnTie(h, incumbent, pop) ==
    LET current_best == MaxByAccuracy(h, pop)
    IN  IF h[current_best].accuracy >= h[incumbent].accuracy
        THEN current_best
        ELSE incumbent

\* lines 155-157: the new self.best_overall
UpdateBest(h, incumbent, pop) ==
    LET current_best == MaxByAccuracy(h, pop)
    IN  IF h[current_best].accuracy > h[incumbent].accuracy
        THEN current_best
        ELSE incumbent

\* EliteCopy that starts the next generation from an empty list
EliteCopyEmpty(el) == <<>>

\* line 146: population = elite.copy()
EliteCopy(el) == el

\* the fill-in loop of run: `while len(population) < self.pop_size`.
\* f = [heap, e, d, population, raised]
RECURSIVE FillIn(_, _, _, _)
FillIn(f, el, buffer, pop_size) ==
    IF FillInDone(f.population, pop_size)
    THEN f
    ELSE LET e1 == NextRng(f.e)
         IN  IF RandomBelowFifth(f.e) /\ buffer # <<>>
             THEN LET p == buffer[1 + RandBelow(e1, Len(buffer))]
                  IN  FillIn([f EXCEPT !.e = NextRng(e1),
                                       !.population = Append(@, p)],
                             el, buffer, pop_size)
             ELSE IF el = <<>>
             THEN [f EXCEPT !.e = e1, !.raised = TRUE]
             ELSE LET parent == el[1 + RandBelow(e1, Len(el))]
                      c == mutate_arch([heap |-> f.heap, e |-> NextRng(e1),
                                        d |-> f.d], parent)
                  IN  FillIn([f EXCEPT !.heap = c.heap, !.e = c.e, !.d = c.d,
                                       !.population = Append(@, Len(c.heap))],
                             el, buffer, pop_size)

\* RangeExhausted that stops the loop one iteration early
RangeExhaustedEarly(g, generations) == g + 1 >= generations

\* line 131: `for gen in range(1, self.generations + 1)` has no further
\* value after g (g = 0 before the first iteration)
RangeExhausted(g, generations) == g >= generations

\* a list of objects by value: what two runs can be compared on
ValuesOf(h, seq) ==
    [i \in 1..Len(seq) |-> [layers |-> h[seq[i]].layers,
                            params |-> h[seq[i]].params,
                            accuracy |-> h[seq[i]].accuracy]]

(***************************************************************************)
(* Configurations: what the driver passes to the two constructors.         *)
(***************************************************************************)
PopSizes == (0..3) \cup {MaxPop \div 2, MaxPop}
Generations == 0..MaxGen
ForgetRates == {0, 35, 50, 75}
ParadoxRates == {15, 25, 100}
DomainSeeds == 42..(42 + NumSeeds - 1)
EngineSeeds == 6000..(6000 + NumSeeds - 1)

Configs ==
    [pop_size : PopSizes, generations : Generations,
     forget_rate : ForgetRates, paradox_rate : ParadoxRates,
     domain_seed : DomainSeeds, engine_seed : EngineSeeds]

\* self.rng = random.Random(seed) of NASRefinerDomain.__init__
DomainRng(seed) == Seeded(seed)

\* the engine's generator seeded from the number of objects alive instead of
\* from the seed alone
EngineRngUnseeded(seed) == Seeded(seed + Len(heap))

\* self.rng = random.Random(seed) of ForgettingEngineNAS.__init__
EngineRng(seed) == Seeded(seed)

\* the state the two constructors leave, for the configuration c
Constructed(c) ==
    /\ cfg = c
    /\ pc = "constructed"
    /\ domain_rng = DomainRng(c.domain_seed)
    /\ engine_rng = EngineRng(c.engine_seed)
    /\ self_population = <<>>
    /\ paradox_buffer = <<>>
    /\ best_overall = 0
    /\ gen = 0
    /\ population = <<>>
    /\ elite = <<>>
    /\ eliminated = <<>>
    /\ keep_count = 0
    /\ paradox_candidates = <<>>
    /\ meta = <<>>
    /\ found = <<>>

\* NASRefinerDomain.__init__ and ForgettingEngineNAS.__init__
Init ==
    /\ heap = <<>>
    /\ \E c \in Configs : Constructed(c)
    /\ run_no = 1
    /\ first_run = <<>>
    /\ call = <<>>

\* run, lines 128-129: the initial population and the first best_overall;
\* max() of an empty population raises
RunInit ==
    /\ pc = "constructed"
    /\ \E c \in {CreateMany([heap |-> heap, e |-> engine_rng, d |-> domain_rng],
                              cfg.pop_size)} :
       \E pop \in {[i \in 1..(Len(c.heap) - Len(heap)) |-> Len(heap) + i]} :
           /\ heap' = c.heap
           /\ engine_rng' = c.e
           /\ domain_rng' = c.d
           /\ self_population' = pop
           /\ found' = pop
           /\ IF pop = <<>>
              THEN /\ pc' = "raised"
                   /\ best_overall' = best_overall
              ELSE /\ pc' = "running"
                   /\ best_overall' = MaxByAccuracy(c.heap, pop)
    /\ UNCHANGED <<cfg, paradox_buffer, gen, population, elite, eliminated,
                   keep_count, paradox_candidates, meta, run_no, first_run,
                   call>>

\* run, lines 131-157: one iteration of `for gen in range(1, generations + 1)`.
\* Each local of the loop body is bound once, in the order the code assigns
\* it: g (131), h1 (132-133, the heap with the scores written), srt (135),
\* kc, el, out (136-138), cands (140-142), buf (144) and f (the fill-in
\* loop, 146-153); lines 155-157 are UpdateBest.
GenStep ==
    /\ pc = "running"
    /\ ~RangeExhausted(gen, cfg.generations)
    /\ \E g \in {gen + 1} :
       \E h1 \in {ScorePopulation(heap, self_population, g)} :
       \E srt \in {SortPopulation(h1, self_population)} :
       \E kc \in {KeepCount(cfg.pop_size, cfg.forget_rate)} :
       \E el \in {Take(srt, kc)} :
       \E out \in {Drop(srt, kc)} :
       \E cands \in {ParadoxCandidates(h1, srt, out)} :
       \E buf \in {NewParadoxBuffer(h1, cands,
                                    BufferCapacity(cfg.pop_size,
                                                   cfg.paradox_rate))} :
       \E f \in {FillIn([heap |-> h1, e |-> engine_rng, d |-> domain_rng,
                         population |-> EliteCopy(el), raised |-> FALSE],
                        el, buf, cfg.pop_size)} :
           /\ gen' = g
           /\ heap' = f.heap
           /\ engine_rng' = f.e
           /\ domain_rng' = f.d
           /\ keep_count' = kc
           /\ elite' = el
           /\ eliminated' = out
           /\ paradox_candidates' = cands
           /\ paradox_buffer' = buf
           /\ population' = f.population
           /\ IF f.raised
              THEN /\ pc' = "raised"
                   /\ UNCHANGED <<best_overall, found>>
              ELSE /\ pc' = "running"
                   /\ found' = found \o f.population
                   /\ best_overall' = UpdateBest(f.heap, best_overall,
                                                 f.population)
    /\ UNCHANGED <<cfg, self_population, meta, run_no, first_run, call>>

\* run, lines 159-160
Return ==
    /\ pc = "running"
    /\ RangeExhausted(gen, cfg.generations)
    /\ pc' = "returned"
    /\ meta' = [paradox_count |-> Len(paradox_buffer)]
    /\ UNCHANGED <<cfg, heap, domain_rng, engine_rng, self_population,
                   paradox_buffer, best_overall, gen, population, elite,
                   eliminated, keep_count, paradox_candidates, run_no,
                   first_run, call, found>>

Next == RunInit \/ GenStep \/ Return

Spec == Init /\ [][Next]_vars

\* run is one call: once it has been entered the interpreter executes it to
\* its return or to the exception that ends it. This is weak fairness of each
\* of the three actions; for RunInit and GenStep the enabling condition is
\* written out (RunInit is enabled in every constructed state, GenStep in
\* every running state whose range is not exhausted).
SpecFair ==
    /\ Spec
    /\ WF_vars(Return)
    /\ []<>(pc # "constructed") \/ []<><<RunInit>>_vars
    /\ []<>(~(pc = "running" /\ ~RangeExhausted(gen, cfg.generations)))
          \/ []<><<GenStep>>_vars

(***************************************************************************)
(* Two independent runs of one configuration: when the first construct-    *)
(* and-run has ended, the driver constructs a fresh NASRefinerDomain and a *)
(* fresh ForgettingEngineNAS with the same arguments and runs again. The   *)
(* objects of the first run stay in memory.                                *)
(***************************************************************************)
\* what a run has produced so far, by value
Outcome ==
    [pc |-> pc,
     best |-> IF best_overall = 0 THEN <<>> ELSE ValuesOf(heap, <<best_overall>>),
     meta |-> meta,
     populations |-> ValuesOf(heap, found)]

Rerun ==
    /\ pc \in {"returned", "raised"}
    /\ run_no = 1
    /\ run_no' = 2
    /\ first_run' = Outcome
    /\ UNCHANGED <<heap, call>>
    /\ cfg' = cfg
    /\ pc' = "constructed"
    /\ domain_rng' = DomainRng(cfg.domain_seed)
    /\ engine_rng' = EngineRng(cfg.engine_seed)
    /\ self_population' = <<>>
    /\ paradox_buffer' = <<>>
    /\ best_overall' = 0
    /\ gen' = 0
    /\ population' = <<>>
    /\ elite' = <<>>
    /\ eliminated' = <<>>
    /\ keep_count' = 0
    /\ paradox_candidates' = <<>>
    /\ meta' = <<>>
    /\ found' = <<>>

NextRerun == Next \/ Rerun

SpecRerun == Init /\ [][NextRerun]_vars

(***************************************************************************)
(* Two trials of run_nas_validation's Forgetting Engine loop (lines        *)
(* 167-176): one NASRefinerDomain is constructed before the loop, and      *)
(* trial t constructs an engine on it with the seed 6000 + t and runs it.  *)
(* Run 1 is a trial on the new domain and run 2 the trial after it, on the *)
(* same domain; run 3 is run 2's trial again with a domain of its own, as  *)
(* when it is executed in isolation.                                       *)
(***************************************************************************)
\* lines 172-174, the loop's next iteration: an engine with the next seed on
\* the domain the trial before has used
NextTrial ==
    /\ pc = "returned"
    /\ run_no = 1
    /\ run_no' = 2
    /\ cfg' = [cfg EXCEPT !.engine_seed = @ + 1]
    /\ engine_rng' = EngineRng(cfg.engine_seed + 1)
    /\ pc' = "constructed"
    /\ self_population' = <<>>
    /\ paradox_buffer' = <<>>
    /\ best_overall' = 0
    /\ gen' = 0
    /\ population' = <<>>
    /\ elite' = <<>>
    /\ eliminated' = <<>>
    /\ keep_count' = 0
    /\ paradox_candidates' = <<>>
    /\ meta' = <<>>
    /\ found' = <<>>
    /\ UNCHANGED <<heap, domain_rng, first_run, call>>

\* lines 167 and 173-174 for the same trial alone: a new domain and an
\* engine with the trial's seed; first_run keeps what the trial gave in the
\* loop
IsolatedTrial ==
    /\ pc \in {"returned", "raised"}
    /\ run_no = 2
    /\ run_no' = 3
    /\ first_run' = Outcome
    /\ domain_rng' = DomainRng(cfg.domain_seed)
    /\ engine_rng' = EngineRng(cfg.engine_seed)
    /\ pc' = "constructed"
    /\ self_population' = <<>>
    /\ paradox_buffer' = <<>>
    /\ best_overall' = 0
    /\ gen' = 0
    /\ population' = <<>>
    /\ elite' = <<>>
    /\ eliminated' = <<>>
    /\ keep_count' = 0
    /\ paradox_candidates' = <<>>
    /\ meta' = <<>>
    /\ found' = <<>>
    /\ UNCHANGED <<cfg, heap, call>>

NextTrials == Next \/ NextTrial \/ IsolatedTrial

SpecTrials == Init /\ [][NextTrials]_vars

(***************************************************************************)
(* Direct calls of NASRefinerDomain.is_paradoxical on small inputs.        *)
(***************************************************************************)
ListAccuracies == {200, 1800}
ListSizes == {1, 2, 10, 20}

IsParadoxicalCall ==
    /\ call = <<>>
    /\ \E acc \in ListAccuracies, size \in ListSizes :
       \E n \in 0..MaxList :
       \E pop_accs \in [1..n -> ListAccuracies], pop_sizes \in [1..n -> ListSizes] :
          LET arch == [accuracy |-> acc, params |-> size]
          IN  call' = [arch |-> arch, pop_accs |-> pop_accs,
                       pop_sizes |-> pop_sizes,
                       result |-> is_paradoxical(arch, pop_accs, pop_sizes)]
    /\ UNCHANGED <<pc, cfg, heap, domain_rng, engine_rng, self_population,
                   paradox_buffer, best_overall, gen, population, elite,
                   eliminated, keep_count, paradox_candidates, meta, run_no,
                   first_run, found>>

\* the configuration of run_nas_validation's first trial
DefaultConfig ==
    [pop_size |-> 50, generations |-> 100, forget_rate |-> 35,
     paradox_rate |-> 15, domain_seed |-> 42, engine_seed |-> 6000]

InitParadox ==
    /\ heap = <<>>
    /\ Constructed(DefaultConfig)
    /\ run_no = 1
    /\ first_run = <<>>
    /\ call = <<>>

SpecParadox == InitParadox /\ [][IsParadoxicalCall]_vars

(***************************************************************************)
(* Direct calls of ForgettingEngineNAS.mutate_arch: the caller holds one    *)
(* Architecture it has built itself, the engine's generator is anywhere in *)
(* its stream, and mutate_arch is called on the caller's object or on a    *)
(* child of an earlier call.                                               *)
(***************************************************************************)
ParentLengths == {0, 1, 3, 4}

ParentLayers == UNION {[1..n -> Range(ops)] : n \in ParentLengths}

InitMutate ==
    /\ \E layers \in ParentLayers, es \in EngineSeeds, k \in 0..MaxDraws :
       \E perf \in {estimate_performance(layers, DomainRng(DefaultConfig.domain_seed))} :
          /\ cfg = [DefaultConfig EXCEPT !.engine_seed = es]
          /\ heap = <<Architecture(layers, ParamsOf(layers), perf.accuracy)>>
          /\ domain_rng = perf.d
          /\ engine_rng = AdvanceRng(EngineRng(es), k)
    /\ pc = "constructed"
    /\ self_population = <<>>
    /\ paradox_buffer = <<>>
    /\ best_overall = 0
    /\ gen = 0
    /\ population = <<>>
    /\ elite = <<>>
    /\ eliminated = <<>>
    /\ keep_count = 0
    /\ paradox_candidates = <<>>
    /\ meta = <<>>
    /\ found = <<>>
    /\ run_no = 1
    /\ first_run = <<>>
    /\ call = <<>>

\* child = engine.mutate_arch(parent); `call` keeps which object was the
\* parent, which is the child and the two generators as the call found them
MutateCall ==
    /\ Len(heap) - 1 < MaxCalls
    /\ \E parent \in 1..Len(heap) :
       \E c \in {mutate_arch([heap |-> heap, e |-> engine_rng, d |-> domain_rng],
                             parent)} :
          /\ heap' = c.heap
          /\ engine_rng' = c.e
          /\ domain_rng' = c.d
          /\ call' = [parent |-> parent, child |-> Len(c.heap),
                      e |-> engine_rng, d |-> domain_rng]
    /\ UNCHANGED <<pc, cfg, self_population, paradox_buffer, best_overall, gen,
                   population, elite, eliminated, keep_count,
                   paradox_candidates, meta, run_no, first_run, found>>

SpecMutate == InitMutate /\ [][MutateCall]_vars

(***************************************************************************)
(* ReproducibilityChecker (src/analysis/enhanced_reproducibility_checker.py)*)
(*                                                                         *)
(* `files` is the data directory: it maps <<domain, algorithm, seed>> to   *)
(* what the trial file holds, "missing" when there is no such file and     *)
(* "corrupt" when json.load raises on it. A rate is the fraction num/den.  *)
(***************************************************************************)
None == "None"

\* load_trial_results: what the trial's file holds
load_trial_results(files, domain, algorithm, seed) ==
    IF <<domain, algorithm, seed>> \in DOMAIN files
    THEN files[<<domain, algorithm, seed>>]
    ELSE "missing"

\* load_trial_results raises: FileNotFoundError or the error of json.load
LoadRaises(content) == content \in {"missing", "corrupt"}

\* calculate_checksum: SHA-256 of the canonical JSON text of the data
calculate_checksum(data) == <<"sha256", data>>

\* verify_single_trial
verify_single_trial(files, domain, algorithm, seed, expected_checksum) ==
    LET content == load_trial_results(files, domain, algorithm, seed)
        actual_checksum == calculate_checksum(content)
    IN  IF LoadRaises(content)
        THEN [domain |-> domain, algorithm |-> algorithm, seed |-> seed,
              reproducible |-> FALSE, verification |-> "ERROR"]
        ELSE IF expected_checksum # None /\ expected_checksum # ""
        THEN [domain |-> domain, algorithm |-> algorithm, seed |-> seed,
              reproducible |-> (actual_checksum = expected_checksum),
              expected_checksum |-> expected_checksum,
              actual_checksum |-> actual_checksum,
              verification |-> IF actual_checksum = expected_checksum
                               THEN "PASS" ELSE "FAIL"]
        ELSE [domain |-> domain, algorithm |-> algorithm, seed |-> seed,
              reproducible |-> TRUE, checksum |-> actual_checksum,
              verification |-> "BASELINE"]

\* ExpectedChecksum that hands verify_single_trial a recorded checksum
ExpectedChecksumRecorded(domain, algorithm, seed) == calculate_checksum("a")

\* line 108: verify_single_trial(domain, algorithm, seed) is called without
\* expected_checksum, which is then its default
ExpectedChecksum(domain, algorithm, seed) == None

\* lines 104-116: the iterations of `for algorithm ... for seed ...` that
\* are left, on the domain_results d
RECURSIVE DomainLoop(_, _, _, _)
DomainLoop(d, files, domain, trials) ==
    IF trials = <<>>
    THEN d
    ELSE LET algorithm == trials[1][1]
             seed      == trials[1][2]
             result    == verify_single_trial(files, domain, algorithm, seed,
                              ExpectedChecksum(domain, algorithm, seed))
             d1 == [d EXCEPT !.total_trials = @ + 1,
                             !.trial_results = Append(@, result)]
             d2 == IF result.verification = "PASS"
                   THEN [d1 EXCEPT !.reproducible_trials = @ + 1]
                   ELSE IF result.verification = "FAIL"
                   THEN [d1 EXCEPT !.failed_trials = @ + 1]
                   ELSE IF result.verification = "ERROR"
                   THEN [d1 EXCEPT !.error_trials = @ + 1]
                   ELSE d1
         IN  DomainLoop(d2, files, domain, Tail(trials))

\* verify_domain_reproducibility
verify_domain_reproducibility(files, domain, algorithms, seeds) ==
    LET trials == [k \in 1..(Len(algorithms) * Len(seeds)) |->
                      <<algorithms[((k - 1) \div Len(seeds)) + 1],
                        seeds[((k - 1) % Len(seeds)) + 1]>>]
        d == DomainLoop([domain |-> domain, total_trials |-> 0,
                         reproducible_trials |-> 0, failed_trials |-> 0,
                         error_trials |-> 0, trial_results |-> <<>>],
                        files, domain, trials)
    IN  [domain |-> d.domain, total_trials |-> d.total_trials,
         reproducible_trials |-> d.reproducible_trials,
         failed_trials |-> d.failed_trials, error_trials |-> d.error_trials,
         trial_results |-> d.trial_results,
         reproducibility_rate |->
             IF d.total_trials > 0
             THEN [num |-> d.reproducible_trials, den |-> d.total_trials]
             ELSE [num |-> 0, den |-> 1]]

\* lines 144-155: the iterations of `for domain_name, config in
\* domain_config.items()` that are left, on all_results r
RECURSIVE AllDomainsLoop(_, _, _)
AllDomainsLoop(r, files, domain_config) ==
    IF domain_config = <<>>
    THEN r
    ELSE LET config == domain_config[1]
             domain_result ==
                 verify_domain_reproducibility(files, config.name,
                                               config.algorithms, config.seeds)
         IN  AllDomainsLoop(
                 [r EXCEPT !.domain_results = Append(@, domain_result),
                           !.summary.total_trials = @ + domain_result.total_trials,
                           !.summary.reproducible_trials =
                               @ + domain_result.reproducible_trials,
                           !.summary.failed_trials = @ + domain_result.failed_trials,
                           !.summary.error_trials = @ + domain_result.error_trials],
                 files, Tail(domain_config))

\* verify_all_domains; domain_config is the dict's items in their order
verify_all_domains(files, domain_config) ==
    LET r == AllDomainsLoop(
                 [total_domains |-> Len(domain_config),
                  overall_reproducibility |-> [num |-> 0, den |-> 1],
                  domain_results |-> <<>>,
                  summary |-> [total_trials |-> 0, reproducible_trials |-> 0,
                               failed_trials |-> 0, error_trials |-> 0]],
                 files, domain_config)
    IN  IF r.summary.total_trials > 0
        THEN [r EXCEPT !.overall_reproducibility =
                          [num |-> r.summary.reproducible_trials,
                           den |-> r.summary.total_trials]]
        ELSE r

AlgorithmNames == {"fe", "mc"}
TrialSeeds == {1, 2}
FileContents == {"missing", "corrupt", "a"}

\* the lists of at most MaxTrialList members of S
ListsOf(S) == UNION {[1..n -> S] : n \in 0..MaxTrialList}

\* checker.verify_all_domains(domain_config) on a data directory with trial
\* files of the domain "nas" only; `call` keeps the input and the result
VerifyAllDomainsCall ==
    /\ call = <<>>
    /\ \E files \in [{"nas"} \X AlgorithmNames \X TrialSeeds -> FileContents] :
       \E algorithms \in ListsOf(AlgorithmNames), seeds \in ListsOf(TrialSeeds) :
       \E names \in {<<>>, <<"nas">>, <<"nas", "tsp">>} :
          LET domain_config ==
                  [i \in 1..Len(names) |->
                      [name |-> names[i], algorithms |-> algorithms,
                       seeds |-> seeds]]
          IN  call' = [files |-> files, domain_config |-> domain_config,
                       result |-> verify_all_domains(files, domain_config)]
    /\ UNCHANGED <<pc, cfg, heap, domain_rng, engine_rng, self_population,
                   paradox_buffer, best_overall, gen, population, elite,
                   eliminated, keep_count, paradox_candidates, meta, run_no,
                   first_run, found>>

\* ReproducibilityChecker.__init__: nothing verified yet; the variables of
\* the search are not used
InitRepro == InitParadox

SpecRepro == InitRepro /\ [][VerifyAllDomainsCall]_vars

(***************************************************************************)
(* Properties                                                              *)
(***************************************************************************)
Live == pc \in {"running", "returned"}

\* a and b hold the same objects, each as often
SameMembers(a, b) ==
    \A x \in Range(a) \cup Range(b) : Count(a, x) = Count(b, x)

\* the accuracy of best_overall
BestAccuracy == heap[best_overall].accuracy

\* the greatest accuracy among the members of seq
MaxAccuracy(seq) ==
    CHOOSE m \in {heap[seq[i]].accuracy : i \in 1..Len(seq)} :
        \A i \in 1..Len(seq) : heap[seq[i]].accuracy <= m

\* a member of the last built population that the fill-in loop took from the
\* paradox buffer, and one it made by mutation
SomeRescued ==
    \E i \in (Len(elite) + 1)..Len(population) : population[i] \in Range(paradox_buffer)
SomeMutated ==
    \E i \in (Len(elite) + 1)..Len(population) :
        population[i] \notin Range(self_population)

\* C1: for every generation step k >= 2, the population that step k scores,
\* sorts and partitions (elite followed by eliminated) is the population
\* that step k-1 built.
C1_PopulationEvolves ==
    [][(pc = "running" /\ gen >= 1 /\ gen' = gen + 1)
          => SameMembers(elite' \o eliminated', population)]_vars

\* C2: with pop_size > 0 (and forget_rate in [0, 1)), the initial population
\* and the population every completed generation step builds have exactly
\* pop_size members.
C2_PopulationSize ==
    (Live /\ cfg.pop_size > 0 /\ cfg.forget_rate \in 0..99)
       => /\ Len(self_population) = cfg.pop_size
          /\ gen >= 1 => Len(population) = cfg.pop_size

C2_Witness ==
    /\ Live /\ gen >= 2 /\ cfg.pop_size > 0
    /\ keep_count < cfg.pop_size
    /\ SomeRescued /\ SomeMutated

\* C3: in every generation step keep_count is the floor of
\* pop_size * (1 - forget_rate), the elite set has keep_count members and the
\* eliminated set the other pop_size - keep_count.
C3_EliteSize ==
    gen >= 1
       => /\ keep_count * 100 <= cfg.pop_size * (100 - cfg.forget_rate)
          /\ cfg.pop_size * (100 - cfg.forget_rate) < (keep_count + 1) * 100
          /\ Len(elite) = keep_count
          /\ Len(eliminated) = cfg.pop_size - keep_count

C3_Witness ==
    /\ gen >= 1 /\ pc = "running"
    /\ (cfg.pop_size * (100 - cfg.forget_rate)) % 100 >= 50
    /\ keep_count > 0 /\ Len(elite) = keep_count
    /\ Len(population) > Len(elite)

\* C4: once run has its initial population, best_overall's accuracy is the
\* greatest accuracy among all members of all populations run has held.
C4_BestIsMaximum ==
    Live => /\ \A i \in 1..Len(found) : heap[found[i]].accuracy <= BestAccuracy
            /\ \E i \in 1..Len(found) : heap[found[i]].accuracy = BestAccuracy

C4_Witness ==
    /\ pc = "returned" /\ gen >= 2
    /\ best_overall \notin Range(self_population)
    /\ best_overall \notin Range(population)

\* C5: best_overall's accuracy never decreases from one step to the next.
C5_BestMonotonic ==
    [][(best_overall # 0 /\ best_overall' # 0)
          => heap'[best_overall'].accuracy >= BestAccuracy]_vars

C5_Witness ==
    /\ pc = "running" /\ gen >= 1
    /\ MaxAccuracy(population) < BestAccuracy

\* C6: a generation whose best accuracy only equals the incumbent's leaves
\* best_overall the same object, so that best_overall is the first object
\* run met, in the order of `found`, whose accuracy is the greatest.
C6_StrictImprovementOnly ==
    [][/\ (pc = "running" /\ pc' = "running" /\ gen' = gen + 1
             /\ heap'[MaxByAccuracy(heap', population')].accuracy = BestAccuracy)
          => best_overall' = best_overall
       /\ (pc' \in {"running", "returned"})
          => best_overall' = MaxByAccuracy(heap', found')]_vars

C6_Witness ==
    /\ pc = "running" /\ gen >= 1
    /\ MaxAccuracy(population) = BestAccuracy
    /\ MaxByAccuracy(heap, population) # best_overall

IsPrefix(a, b) == Len(a) <= Len(b) /\ a = SubSeq(b, 1, Len(a))

CallBelowMean ==
    Len(call.pop_accs) * call.arch.accuracy < SumSeq(call.pop_accs)
CallPercentile25x4 == Percentile25x4(call.pop_sizes)

RoundedCapacity ==
    LET n == cfg.paradox_rate * cfg.pop_size
        q == n \div 100
        r == n % 100
    IN  IF r > 50 \/ (r = 50 /\ q % 2 = 1) THEN q + 1 ELSE q

AfterStep == pc \in {"running", "returned"} /\ gen >= 1

C10_BufferIsSnapshot ==
    (gen >= 1) =>
       LET whole == elite \o eliminated
           accs  == [i \in 1..Len(whole) |-> heap[whole[i]].accuracy]
           sizes == [i \in 1..Len(whole) |-> heap[whole[i]].params]
       IN  \A i \in 1..Len(paradox_buffer) :
              /\ paradox_buffer[i] \in Range(eliminated)
              /\ Len(whole) * heap[paradox_buffer[i]].accuracy < SumSeq(accs)
              /\ 4 * heap[paradox_buffer[i]].params < Percentile25x4(sizes)

C10_Witness ==
    /\ AfterStep /\ gen >= 2
    /\ paradox_buffer # <<>>
    /\ Len(elite) >= 1

\* run has returned after at least one generation step
ReturnedAfterStep == pc = "returned" /\ gen >= 1

\* C11 as stated: when run returns after at least one generation step,
\* paradox_count is at least 1 and at most round(paradox_rate * pop_size).
C11_CountAtLeastOne ==
    ReturnedAfterStep
       => /\ meta.paradox_count >= 1
          /\ meta.paradox_count <= RoundedCapacity

\* C11 amended: when run returns after at least one generation step,
\* paradox_count is at least 0, at most max(1, floor(paradox_rate * pop_size))
\* and at most the number of eliminated members of the last step.
C11_CountWithinCapacity ==
    ReturnedAfterStep
       => /\ meta.paradox_count >= 0
          /\ \/ meta.paradox_count <= 1
             \/ meta.paradox_count * 100 <= cfg.paradox_rate * cfg.pop_size
          /\ meta.paradox_count <= Len(eliminated)

\* a run of two steps and more that returns a paradox_count of 0 although its
\* last step eliminated members
C11_Witness ==
    /\ ReturnedAfterStep /\ gen >= 2
    /\ meta.paradox_count = 0
    /\ Len(eliminated) >= 2

\* the configuration is one the specification calls well-formed
WellFormed(c) ==
    /\ c.pop_size > 0
    /\ c.forget_rate \in 0..99
    /\ c.paradox_rate \in 1..100
    /\ c.generations >= 0
    /\ KeepCount(c.pop_size, c.forget_rate) > 0

\* C12: the constructor rejects every configuration with pop_size <= 0,
\* forget_rate outside [0, 1), paradox_rate outside (0, 1], generations < 0
\* or a keep_count of 0: an engine that has been constructed has a
\* well-formed configuration.
C12_ConstructionValidates ==
    pc = "constructed" => WellFormed(cfg)

\* C13: once construction has succeeded run never fails, neither in its
\* initialisation nor in the generation loop, what it ends with is a
\* complete (best_overall, metadata) pair, and no generation is filled in
\* from an empty elite set.
C13_RunNeverFails ==
    /\ pc # "raised"
    /\ pc = "returned" => (best_overall # 0 /\ meta # <<>>)
    /\ (gen >= 1 /\ Len(population) > Len(elite)) => elite # <<>>

\* C14: the returned metadata holds paradox_count, the size of the paradox
\* buffer after the last generation step, and generations_completed, equal
\* to the configured generations.
C14_MetadataComplete ==
    pc = "returned"
       => /\ DOMAIN meta = {"paradox_count", "generations_completed"}
          /\ meta.paradox_count = Len(paradox_buffer)
          /\ meta.generations_completed = cfg.generations

\* pop_size > 0 and a non-empty elite set
HasElite == cfg.pop_size > 0 /\ KeepCount(cfg.pop_size, cfg.forget_rate) > 0

\* C15: with pop_size > 0 and a non-empty elite set run terminates: the
\* generation index goes 1, 2, ..., generations, one step at a time, every
\* fill-in loop ends after exactly pop_size - keep_count appends, run returns
\* when exactly `generations` steps have been made (none for generations = 0)
\* and it does return.
C15_RunTerminates ==
    /\ [](HasElite
            => /\ pc # "raised"
               /\ gen \in 0..cfg.generations
               /\ pc = "returned" => gen = cfg.generations
               /\ gen >= 1 => /\ SubSeq(population, 1, keep_count) = elite
                              /\ Len(population) - keep_count
                                    = cfg.pop_size - keep_count)
    /\ [][(HasElite /\ gen' # gen) => (pc = "running" /\ gen' = gen + 1)]_vars
    /\ HasElite ~> (pc = "returned")

C15_Witness ==
    /\ HasElite /\ pc = "returned"
    /\ gen = cfg.generations /\ gen >= 2
    /\ keep_count < cfg.pop_size
    /\ SomeRescued /\ SomeMutated

\* the caller's own object has at least 4 layers
StartsAtFour == Len(heap) >= 1 /\ Len(heap[1].layers) >= 4

\* C16 as stated: starting from an encoding of length >= 4, no sequence of
\* mutate_arch calls produces an encoding of length below 4.
C16_NeverBelowFour ==
    StartsAtFour => \A i \in 1..Len(heap) : Len(heap[i].layers) >= 4

\* C16 amended: starting from an encoding of length >= 4, no sequence of
\* mutate_arch calls produces an encoding of length below 3.
C16_NeverBelowThree ==
    StartsAtFour => \A i \in 1..Len(heap) : Len(heap[i].layers) >= 3

\* a removal took a 4-layer parent to a 3-layer child, and a second removal
\* drawn for that child left it at 3 layers
C16_Witness ==
    /\ StartsAtFour /\ Len(heap) = 3
    /\ Len(heap[1].layers) = 4 /\ Len(heap[2].layers) = 3
    /\ call.parent = 2 /\ MutationType(call.e) = "remove"
    /\ Len(heap[3].layers) = 3

C18_EmptyParentResampled ==
    (call # <<>> /\ heap[call.parent].layers = <<>>)
       => LET child == heap[call.child]
          IN  /\ Len(child.layers) \in 5..20
              /\ child.params = ParamsOf(child.layers)
              /\ child.accuracy
                    = estimate_performance(child.layers, call.d).accuracy
              /\ domain_rng = NextRng(call.d)
              /\ engine_rng = AdvanceRng(call.e, 1 + Len(child.layers))

C18_Witness ==
    /\ call # <<>> /\ heap[call.parent].layers = <<>>
    /\ heap[call.child].layers # <<>>

\* the objects run holds: the members of self.population, of the population
\* built last, of elite and eliminated, of the paradox buffer, and
\* best_overall
LiveCandidates ==
    Range(self_population) \cup Range(population) \cup Range(elite)
       \cup Range(eliminated) \cup Range(paradox_buffer)
       \cup (IF best_overall = 0 THEN {} ELSE {best_overall})

\* C19: in every reachable state of run every live candidate has at least
\* one layer.
C19_EncodingNeverEmpty ==
    \A a \in LiveCandidates : Len(heap[a].layers) >= 1

\* a built population with rescued and mutated members, one of them of the
\* sampler's shortest length or shorter, next to a non-empty paradox buffer
C19_Witness ==
    /\ pc = "running" /\ gen >= 1
    /\ paradox_buffer # <<>> /\ best_overall # 0
    /\ SomeRescued /\ SomeMutated
    /\ \E i \in 1..Len(population) : Len(heap[population[i]].layers) <= 5

\* what the Candidate Space's sampler gives for pop_size calls on the domain
\* as constructed
SampledByDomain ==
    BaselineSample([heap |-> <<>>, e |-> EngineRng(cfg.engine_seed),
                    d |-> DomainRng(cfg.domain_seed)], cfg.pop_size)

\* C20: the initial population is what pop_size calls of the Candidate
\* Space's sampler give: the domain's depth range (3 to 10 layers) and the
\* domain's random stream, the engine's generator not being drawn from.
C20_InitialFromCandidateSpace ==
    (pc = "running" /\ gen = 0)
       => /\ \A i \in 1..Len(self_population) :
                Len(heap[self_population[i]].layers) \in 3..10
          /\ engine_rng = EngineRng(cfg.engine_seed)
          /\ ValuesOf(heap, self_population)
                = ValuesOf(SampledByDomain.heap,
                           [i \in 1..cfg.pop_size |-> i])

\* C21: in every generation step elite followed by eliminated is the
\* population in descending order of elimination score, the elite set being
\* its first keep_count members: no eliminated member's score is above an
\* elite member's.
C21_EliteRankedFirst ==
    gen >= 1
       => LET srt == elite \o eliminated
          IN  /\ SameMembers(srt, self_population)
              /\ elite = Take(srt, keep_count)
              /\ \A i \in 1..Len(srt) : \A j \in (i + 1)..Len(srt) :
                    ~ScoreAbove(heap[srt[j]].elim_score, heap[srt[i]].elim_score)
              /\ \A i \in 1..Len(elite) : \A j \in 1..Len(eliminated) :
                    ~ScoreAbove(heap[eliminated[j]].elim_score,
                                heap[elite[i]].elim_score)

\* a step whose elite and eliminated sets both have members, of different
\* scores, and whose elite does not hold the population's most accurate member
C21_Witness ==
    /\ gen >= 1 /\ elite # <<>> /\ eliminated # <<>>
    /\ ScoreAbove(heap[elite[1]].elim_score,
                  heap[eliminated[Len(eliminated)]].elim_score)
    /\ \A i \in 1..Len(elite) :
          heap[elite[i]].accuracy < MaxAccuracy(self_population)

\* C23: after every generation step the buffer is in ascending order of
\* params, and no paradoxical eliminated candidate outside the buffer has
\* params strictly below those of a candidate inside it.
C23_BufferKeepsSmallest ==
    gen >= 1
       => /\ \A i \in 1..Len(paradox_buffer) : \A j \in (i + 1)..Len(paradox_buffer) :
                heap[paradox_buffer[i]].params <= heap[paradox_buffer[j]].params
          /\ \A i \in 1..Len(paradox_candidates) :
                paradox_candidates[i] \notin Range(paradox_buffer)
                   => \A j \in 1..Len(paradox_buffer) :
                         heap[paradox_candidates[i]].params
                            >= heap[paradox_buffer[j]].params

\* the paradoxical candidates were not found in ascending order of params
C23_Witness ==
    /\ AfterStep
    /\ Len(paradox_candidates) >= 2 /\ paradox_buffer # <<>>
    /\ heap[paradox_candidates[1]].params
          > heap[paradox_candidates[Len(paradox_candidates)]].params

\* what one mutation operator makes of the layers p: c is p with two
\* different positions exchanged; with one token of ops put in; with one
\* token taken out; with one position set to a token of ops
IsSwapOf(p, c) ==
    /\ Len(c) = Len(p)
    /\ \E i \in 1..Len(p) : \E j \in (1..Len(p)) \ {i} :
          /\ c[i] = p[j] /\ c[j] = p[i]
          /\ \A k \in (1..Len(p)) \ {i, j} : c[k] = p[k]

IsInsertOf(p, c) ==
    /\ Len(c) = Len(p) + 1
    /\ \E k \in 1..Len(c) :
          /\ c[k] \in Range(ops)
          /\ \A i \in 1..(k - 1) : c[i] = p[i]
          /\ \A i \in (k + 1)..Len(c) : c[i] = p[i - 1]

IsDeleteOf(p, c) ==
    /\ Len(c) = Len(p) - 1
    /\ \E k \in 1..Len(p) :
          /\ \A i \in 1..(k - 1) : c[i] = p[i]
          /\ \A i \in k..Len(c) : c[i] = p[i + 1]

IsReplaceOf(p, c) ==
    /\ Len(c) = Len(p)
    /\ \E k \in 1..Len(p) :
          /\ c[k] \in Range(ops)
          /\ \A i \in (1..Len(p)) \ {k} : c[i] = p[i]

IsMutationOf(p, c) ==
    \/ c = p
    \/ IsSwapOf(p, c)
    \/ IsInsertOf(p, c)
    \/ (Len(p) > 3 /\ IsDeleteOf(p, c))
    \/ IsReplaceOf(p, c)

\* the object a of the heap h and the object b of the heap k have the same
\* layers, params and accuracy
SameCandidate(h, a, k, b) ==
    /\ h[a].layers = k[b].layers
    /\ h[a].params = k[b].params
    /\ h[a].accuracy = k[b].accuracy

\* C22: the population a generation step builds is the keep_count elite
\* members, unchanged and in sorted order, followed by pop_size - keep_count
\* fill-ins; each fill-in is a member of the step's paradox buffer, unchanged,
\* or a new object made by one mutation of an elite member; with an empty
\* buffer every fill-in is a new object.
C22_NextGeneration ==
    [][(gen' = gen + 1 /\ pc' = "running")
          => /\ SubSeq(population', 1, keep_count') = elite'
             /\ Len(population') - keep_count' = cfg.pop_size - keep_count'
             /\ \A i \in 1..keep_count' :
                   SameCandidate(heap', elite'[i], heap, elite'[i])
             /\ \A i \in (keep_count' + 1)..Len(population') :
                   LET a == population'[i]
                   IN  \/ /\ a \in Range(paradox_buffer')
                          /\ SameCandidate(heap', a, heap, a)
                       \/ /\ a > Len(heap)
                          /\ \E parent \in Range(elite') :
                                IsMutationOf(heap'[parent].layers, heap'[a].layers)
             /\ paradox_buffer' = <<>>
                   => \A i \in (keep_count' + 1)..Len(population') :
                         population'[i] > Len(heap)]_vars

\* a built population with a rescued member and with a mutated member whose
\* layers are those of no elite member
C22_Witness ==
    /\ pc = "running" /\ gen >= 1 /\ keep_count >= 2
    /\ SomeRescued
    /\ \E i \in (keep_count + 1)..Len(population) :
          /\ population[i] \notin Range(self_population)
          /\ \A j \in 1..Len(elite) :
                heap[population[i]].layers # heap[elite[j]].layers

\* C24: for a parent with layers, add gives the parent's layers with one
\* token put in, remove gives them with one token taken out when there are
\* more than 3 and the same layers otherwise, swap gives them with two
\* different positions exchanged when there are 2 or more and the same layers
\* otherwise, replace gives them with one position set anew; the length
\* changes by one at most.
C24_OneMutation ==
    (call # <<>> /\ heap[call.parent].layers # <<>>)
       => LET p == heap[call.parent].layers
              c == heap[call.child].layers
              t == MutationType(call.e)
          IN  /\ Len(c) - Len(p) \in {-1, 0, 1}
              /\ t = "add" => IsInsertOf(p, c)
              /\ t = "remove" => IF Len(p) > 3 THEN IsDeleteOf(p, c) ELSE c = p
              /\ t = "swap" => IF Len(p) >= 2 THEN IsSwapOf(p, c) ELSE c = p
              /\ t = "replace" => IsReplaceOf(p, c)

\* an add that made the caller's layers one longer, then a swap that changed
\* the child's layers
C24_Witness ==
    /\ call # <<>> /\ Len(heap) = 3 /\ call.parent = 2
    /\ Len(heap[2].layers) = Len(heap[1].layers) + 1
    /\ MutationType(call.e) = "swap"
    /\ heap[3].layers # heap[2].layers

\* the cost-table sum of the layers, token by token
CostSum(layers) ==
    LET listed == {"CONV3", "CONV5", "POOL", "DROP"}
    IN  50000 * Count(layers, "CONV3") + 100000 * Count(layers, "CONV5")
          + 1000 * Count(layers, "POOL") + 500 * Count(layers, "DROP")
          + 10000 * Cardinality({i \in 1..Len(layers) : layers[i] \notin listed})

\* C25: in every reachable state of run, every candidate of the population,
\* of the paradox buffer and best_overall has params equal to the cost-table
\* sum of its layers, whether it was sampled or made by a mutation.
C25_ParamsIsCostSum ==
    \A a \in LiveCandidates : heap[a].params = CostSum(heap[a].layers)

\* a built population with a mutated member whose params are those of no
\* elite member, and with POOL and DROP layers in it
C25_Witness ==
    /\ pc = "running" /\ gen >= 1 /\ best_overall # 0
    /\ \E i \in (Len(elite) + 1)..Len(population) :
          /\ population[i] \notin Range(self_population)
          /\ Count(heap[population[i]].layers, "POOL") >= 1
          /\ Count(heap[population[i]].layers, "DROP") >= 1
          /\ \A j \in 1..Len(elite) :
                heap[population[i]].params # heap[elite[j]].params

\* C26: every candidate, sampled or made by a mutation, has an accuracy
\* from 0 to 0.98, and a candidate without layers has accuracy 0.
C26_AccuracyBounded ==
    \A i \in 1..Len(heap) :
       /\ heap[i].accuracy >= 0
       /\ heap[i].accuracy <= 1960
       /\ heap[i].layers = <<>> => heap[i].accuracy = 0

\* a child whose accuracy is the cap because its bonus and noise together
\* are beyond it
C26_Witness ==
    /\ call # <<>>
    /\ heap[call.child].accuracy = 1960
    /\ 1400 + (5 * Count(heap[call.child].layers, "CONV3")
                 + 8 * Count(heap[call.child].layers, "CONV5"))
                * (20 - Len(heap[call.child].layers))
            + Uniform(call.d) > 1960

\* C27: a candidate is created from one stream, not from the engine's and
\* the Candidate Space's together, and in a fill-in iteration the mutation
\* draws come first: the iteration's first draw of the engine's stream is the
\* choice of the parent and the next ones are the operator's, the
\* rescue-probability draw coming after them. Stated on the first fill-in
\* of a step, when it is a mutated child.
C27_DrawOrder ==
    [][/\ (pc = "constructed" /\ pc' = "running")
          => (engine_rng' = engine_rng \/ domain_rng' = domain_rng)
       /\ (/\ gen' = gen + 1
           /\ elite' # <<>>
           /\ Len(population') > keep_count'
           /\ population'[keep_count' + 1] > Len(heap))
          => LET parent == elite'[1 + RandBelow(engine_rng, Len(elite'))]
                 m      == MutateLayers(heap[parent].layers, NextRng(engine_rng))
             IN  heap'[population'[keep_count' + 1]].layers = m.layers]_vars

\* C28: within one run the elite set, the eliminated set and the paradox
\* buffer of every generation step are those of the step before, and so
\* those of step 1.
C28_SamePartitionEveryStep ==
    [][(gen >= 1 /\ gen' = gen + 1)
          => /\ elite' = elite
             /\ eliminated' = eliminated
             /\ paradox_candidates' = paradox_candidates
             /\ paradox_buffer' = paradox_buffer]_vars

\* a run of two steps and more whose steps score members of different
\* accuracy and params by different divisors, with a buffer in use
C28_Witness ==
    /\ pc = "running" /\ gen >= 2
    /\ elite # <<>> /\ Len(eliminated) >= 2
    /\ paradox_buffer # <<>>
    /\ heap[elite[1]].elim_score.den = gen
    /\ heap[elite[1]].accuracy # heap[eliminated[1]].accuracy

\* C29: a trial of the Forgetting Engine loop gives what it gives when it
\* is executed alone: the same outcome, and so the same best accuracy,
\* whether its domain has been used by the trial before it or not.
C29_TrialIndependent ==
    (run_no = 3 /\ pc \in {"returned", "raised"})
       => /\ pc = first_run.pc
          /\ pc = "returned"
                => Outcome.best[1].accuracy = first_run.best[1].accuracy

====
